---- MODULE Spec2Model ----
(***************************************************************************)
(* russ: the control (draw) thread, the I/O thread and its command queue,  *)
(* the bounded fetch pipeline and the flash lifecycle of src/main.rs.      *)
(*                                                                         *)
(* The App type lives in app.rs; its accessors are modelled by what        *)
(* main.rs and the specification say of them (set_flash, clear_flash,      *)
(* push_error_flash, clear_error_flash, the subscription input buffer).    *)
(***************************************************************************)
EXTENDS Integers, Sequences, FiniteSets, TLC

\* ------------------------------------------------------------------ bounds
\* Refresh and subscribe commands the control thread sends in one run.
MaxCmds == 2
\* Subscribe commands among them.
MaxSubscribes == 1
\* Largest batch app.feed_ids() returns in the whole-program specification.
MaxBatch == 1
\* Largest batch handed to refresh_feeds in the pipeline specification.
MaxFeeds == 4
\* num_cpus::get() of the machine.
NumCpus == 1
\* Longest subscription input typed.
MaxInput == 1
\* options.flash_display_duration_seconds, in clock units.
FlashDuration == 2
\* options.tick_rate, in clock units.
TickRate == 2
\* Tick events counted in one run of the input/tick thread.
MaxTicks == 2

VARIABLES
    mode,                        \* App: Mode::Normal | Mode::Editing
    selected,                    \* App: Selected::Feeds | other pane
    flash,                       \* App: the status notification
    error_flash,                 \* App: whether the error flash holds an error
    feed_subscription_input,     \* App: text typed for a subscription
    feeds_version,               \* App: id of the command that last replaced the feed collection
    current_view,                \* App: id of the command that last refreshed the displayed view
    io_queue,                    \* the mpsc channel (io_s, io_r)
    next_id,                     \* history: identity of the next command enqueued
    main_sent,                   \* history: how many commands of each kind main has sent
    sent,                        \* history: identities of the commands enqueued, in send order
    handled,                     \* history: identities of the commands dequeued, in order
    last_clear,                  \* history: what the last ClearFlash handled found displayed, and for how long
    main_pc,                     \* control thread: loop | joining | done | failed
    torn_down,                   \* control thread: terminal teardown performed
    io_pc,                       \* I/O thread position
    io_error,                    \* the Err async_io_loop returned with, if any
    cur,                         \* I/O thread: the command being handled
    next_unit,                   \* refresh_feeds: next index of feed_ids to spawn
    in_flight,                   \* refresh_feeds: units spawned and not yet yielded
    outcomes,                    \* history: outcomes passed to the accumulator f
    successfully_refreshed_len,  \* RefreshFeeds handler's counter
    slept,                       \* clear_flash_after: time spent in the sleep so far
    displayed_for,               \* time the completion flash has been displayed
    tick_pc,                     \* input/tick thread position
    elapsed,                     \* input/tick thread: time since last_tick
    poll_left,                   \* input/tick thread: what remains of the poll timeout
    since_tick,                  \* history: time since the last Tick was sent
    ticks,                       \* history: Tick events sent
    last_gap                     \* history: time between the last two Tick events

app_vars == <<mode, selected, flash, error_flash, feed_subscription_input, feeds_version,
              current_view>>
chan_vars == <<io_queue, next_id, main_sent, sent, handled>>
hist_vars == <<last_clear>>
main_vars == <<main_pc, torn_down>>
fetch_vars == <<next_unit, in_flight, outcomes, successfully_refreshed_len>>
io_vars == <<io_pc, io_error, cur>>
time_vars == <<slept, displayed_for>>
tick_vars == <<tick_pc, elapsed, poll_left, since_tick, ticks, last_gap>>
vars == <<app_vars, chan_vars, hist_vars, main_vars, io_vars, fetch_vars, time_vars, tick_vars>>

\* ------------------------------------------------------------- data types
Chars == {"q", "c", "r", "x"}
KeyCodes == Chars \cup {"Esc", "Enter", "Backspace", "Delete", "Tab"}
Modifiers == {"NONE", "CONTROL"}
Keys == [code : KeyCodes, modifiers : Modifiers]

Range(seq) == {seq[i] : i \in DOMAIN seq}

\* enum IoCommand; id, by and during are history fields: the command's identity,
\* the command whose handler enqueued it (ClearFlash), and the command whose
\* handler was waiting out its display delay when this one was sent.
IoCommand(type, id, feed_ids, input, by, during) ==
    [type |-> type, id |-> id, feed_ids |-> feed_ids, input |-> input,
     by |-> by, during |-> during]

NoCommand == IoCommand("None", 0, <<>>, <<>>, 0, 0)

NoFlash == [text |-> "", by |-> 0, ok |-> 0, total |-> 0]

\* What a spawned unit hands back: Ok(Ok(())), Ok(Err(fetch/parse/timeout)),
\* Ok(Err(pool.get() failed)), Err(JoinError).
UnitResults == {"ok", "fetch_error", "pool_error", "join_error"}

\* ------------------------------------------------------------ App accessors
set_flash(text, by, ok, total) == [text |-> text, by |-> by, ok |-> ok, total |-> total]

clear_flash == NoFlash

push_error_flash(errors) == TRUE

clear_error_flash == FALSE

error_flash_is_empty == error_flash = FALSE

reset_feed_subscription_input == <<>>

push_feed_subscription_input(input, c) == Append(input, c)

update_current_feed_and_entries(id) == id

set_feeds(id) == id

select_feeds == "Feeds"

pop_feed_subscription_input(input) ==
    IF input = <<>> THEN <<>> ELSE SubSeq(input, 1, Len(input) - 1)

\* ------------------------------------------------------------- the channel
\* Faulty variant of rx_recv: the newest command is taken first.
rx_recv_newest_first ==
    [event |-> io_queue[Len(io_queue)], rest |-> SubSeq(io_queue, 1, Len(io_queue) - 1)]

\* mpsc::Receiver::recv: the oldest command and what stays queued.
rx_recv == [event |-> Head(io_queue), rest |-> Tail(io_queue)]

\* The receiver is dropped when async_io_loop returns.
IoReturned == io_pc \in {"returned_ok", "returned_err"}

\* The process lives until main returns.
ProcessAlive == main_pc \in {"loop", "joining"}

\* The command whose handler is waiting in clear_flash_after's sleep, or 0.
DelayOf == IF io_pc = "sleeping" THEN cur.id ELSE 0

\* The completion notifications the handlers set before clear_flash_after.
IsCompletionFlash(f) == f.text \in {"Refreshed feed", "Refreshed feeds", "Subscribed"}

Min(a, b) == IF a < b THEN a ELSE b

\* The run's bound on commands is not yet reached.
CanSendMore == main_sent.refresh + main_sent.subscribe < MaxCmds

\* Faulty variant of io_s_send: a rendezvous channel, on which the sender
\* waits until the I/O thread is at rx.recv().
io_s_send_rendezvous(type, feed_ids, input, pc_after) ==
    IF IoReturned
    THEN /\ main_pc' = "failed"
         /\ UNCHANGED chan_vars
    ELSE LET cmd == IoCommand(type, next_id, feed_ids, input, 0, DelayOf)
         IN  /\ io_pc = "recv"
             /\ io_queue' = Append(io_queue, cmd)
             /\ sent' = Append(sent, cmd.id)
             /\ next_id' = next_id + 1
             /\ main_sent' = CASE type = "Break" -> [main_sent EXCEPT !.break = @ + 1]
                                [] type = "SubscribeToFeed" ->
                                       [main_sent EXCEPT !.subscribe = @ + 1]
                                [] OTHER -> [main_sent EXCEPT !.refresh = @ + 1]
             /\ handled' = handled
             /\ main_pc' = pc_after

\* io_s.send(cmd)? on the control thread: an Err (receiver gone) leaves main.
\* The channel is unbounded (mpsc::channel()): the send never waits.
io_s_send(type, feed_ids, input, pc_after) ==
    IF IoReturned
    THEN /\ main_pc' = "failed"
         /\ UNCHANGED chan_vars
    ELSE LET cmd == IoCommand(type, next_id, feed_ids, input, 0, DelayOf)
         IN  /\ io_queue' = Append(io_queue, cmd)
             /\ sent' = Append(sent, cmd.id)
             /\ next_id' = next_id + 1
             /\ main_sent' = CASE type = "Break" -> [main_sent EXCEPT !.break = @ + 1]
                                [] type = "SubscribeToFeed" ->
                                       [main_sent EXCEPT !.subscribe = @ + 1]
                                [] OTHER -> [main_sent EXCEPT !.refresh = @ + 1]
             /\ handled' = handled
             /\ main_pc' = pc_after

Init ==
    /\ mode = "Normal"
    /\ selected = "Feeds"
    /\ flash = NoFlash
    /\ error_flash = FALSE
    /\ feed_subscription_input = <<>>
    /\ feeds_version = 0
    /\ current_view = 0
    /\ io_queue = <<>>
    /\ next_id = 1
    /\ main_sent = [refresh |-> 0, subscribe |-> 0, break |-> 0]
    /\ sent = <<>>
    /\ handled = <<>>
    /\ last_clear = [flash_by |-> 0, error_held |-> FALSE, completion |-> FALSE,
                     displayed_for |-> 0]
    /\ main_pc = "loop"
    /\ torn_down = FALSE
    /\ io_pc = "start"
    /\ io_error = "none"
    /\ cur = NoCommand
    /\ next_unit = 1
    /\ in_flight = {}
    /\ outcomes = {}
    /\ successfully_refreshed_len = 0
    /\ slept = 0
    /\ displayed_for = 0
    /\ tick_pc = "top"
    /\ elapsed = 0
    /\ poll_left = 0
    /\ since_tick = 0
    /\ ticks = 0
    /\ last_gap = 0

\* ------------------------------------------------------ the control thread
\* The first match arm of Mode::Normal.
IsQuitKey(key) ==
    \/ key.code = "q"
    \/ key.code = "c" /\ key.modifiers = "CONTROL"
    \/ key.code = "Esc"

IsRefreshFeedKey(key) == key.code = "r" /\ key.modifiers = "NONE"

IsRefreshFeedsKey(key) == key.code = "x" /\ key.modifiers = "NONE"

\* Faulty variant of quit_arm: the error flash is not consulted.
quit_arm_always_quits ==
    \/ /\ main_pc' = "failed"
       /\ UNCHANGED <<app_vars, chan_vars, torn_down>>
    \/ /\ torn_down' = TRUE
       /\ io_s_send("Break", <<>>, <<>>, "joining")
       /\ UNCHANGED app_vars

\* Faulty variant of quit_arm: Break is sent and the loop left with the
\* terminal still in raw mode.
quit_arm_without_teardown ==
    IF ~error_flash_is_empty
    THEN /\ error_flash' = clear_error_flash
         /\ UNCHANGED <<mode, selected, flash, feed_subscription_input, feeds_version, current_view>>
         /\ UNCHANGED <<chan_vars, main_vars>>
    ELSE /\ torn_down' = torn_down
         /\ io_s_send("Break", <<>>, <<>>, "joining")
         /\ UNCHANGED app_vars

\* The body of the quit arm: dismiss the error flash, or tear down, send Break
\* and leave the loop. Each of the three teardown calls may fail (`?`).
quit_arm ==
    IF ~error_flash_is_empty
    THEN /\ error_flash' = clear_error_flash
         /\ UNCHANGED <<mode, selected, flash, feed_subscription_input, feeds_version, current_view>>
         /\ UNCHANGED <<chan_vars, main_vars>>
    ELSE \/ /\ main_pc' = "failed"
            /\ UNCHANGED <<app_vars, chan_vars, torn_down>>
         \/ /\ torn_down' = TRUE
            /\ io_s_send("Break", <<>>, <<>>, "joining")
            /\ UNCHANGED app_vars

\* app.draw(&mut terminal)? or rx.recv()? fails: main returns the error.
MainFault ==
    /\ main_pc = "loop"
    /\ main_pc' = "failed"
    /\ UNCHANGED <<app_vars, chan_vars, torn_down, io_vars, fetch_vars>>
    /\ UNCHANGED <<hist_vars, time_vars, tick_vars>>

\* Event::Tick => ()
Tick ==
    /\ main_pc = "loop"
    /\ UNCHANGED vars

NormalQuit(key) ==
    /\ main_pc = "loop"
    /\ mode = "Normal"
    /\ IsQuitKey(key)
    /\ quit_arm
    /\ UNCHANGED <<io_vars, fetch_vars>>
    /\ UNCHANGED <<hist_vars, time_vars, tick_vars>>

\* 'r': RefreshFeed(selected feed) when the feed pane is selected, else toggle_read()?.
NormalRefreshFeed(key) ==
    /\ main_pc = "loop"
    /\ mode = "Normal"
    /\ ~IsQuitKey(key)
    /\ IsRefreshFeedKey(key)
    /\ IF selected = "Feeds"
       THEN /\ CanSendMore
            /\ \E feed_id \in 1..MaxBatch :
                   io_s_send("RefreshFeed", <<feed_id>>, <<>>, "loop")
            /\ UNCHANGED torn_down
       ELSE /\ main_pc' \in {"loop", "failed"}
            /\ UNCHANGED <<chan_vars, torn_down>>
    /\ UNCHANGED <<app_vars, io_vars, fetch_vars>>
    /\ UNCHANGED <<hist_vars, time_vars, tick_vars>>

\* 'x': RefreshFeeds(app.feed_ids()?).
NormalRefreshFeeds(key) ==
    /\ main_pc = "loop"
    /\ mode = "Normal"
    /\ ~IsQuitKey(key)
    /\ ~IsRefreshFeedKey(key)
    /\ IsRefreshFeedsKey(key)
    /\ \/ /\ main_pc' = "failed"
          /\ UNCHANGED chan_vars
       \/ /\ CanSendMore
          /\ \E k \in 0..MaxBatch :
                 io_s_send("RefreshFeeds", [i \in 1..k |-> i], <<>>, "loop")
    /\ UNCHANGED <<app_vars, torn_down, io_vars, fetch_vars>>
    /\ UNCHANGED <<hist_vars, time_vars, tick_vars>>

\* app.on_key(keycode, modifiers): the keybinding collaborator. It moves the
\* selection, enters Editing, does nothing visible here, or fails.
on_key_results == {"edit", "select_feeds", "select_entries", "none", "err"}

\* Faulty variant of on_key_arm: the error is propagated with `?`.
on_key_failure_is_fatal(result) ==
    /\ mode' = (IF result = "edit" THEN "Editing" ELSE mode)
    /\ selected' = CASE result = "select_feeds" -> "Feeds"
                     [] result = "select_entries" -> "Entries"
                     [] OTHER -> selected
    /\ error_flash' = error_flash
    /\ main_pc' = (IF result = "err" THEN "failed" ELSE main_pc)
    /\ UNCHANGED <<flash, feed_subscription_input, feeds_version, current_view>>
    /\ UNCHANGED <<chan_vars, torn_down>>

on_key_arm(result) ==
    /\ mode' = (IF result = "edit" THEN "Editing" ELSE mode)
    /\ selected' = CASE result = "select_feeds" -> "Feeds"
                     [] result = "select_entries" -> "Entries"
                     [] OTHER -> selected
    /\ error_flash' = (IF result = "err" THEN push_error_flash(error_flash) ELSE error_flash)
    /\ UNCHANGED <<flash, feed_subscription_input, feeds_version, current_view>>
    /\ UNCHANGED <<chan_vars, main_vars>>

NormalOnKey(key) ==
    /\ main_pc = "loop"
    /\ mode = "Normal"
    /\ ~IsQuitKey(key)
    /\ ~IsRefreshFeedKey(key)
    /\ ~IsRefreshFeedsKey(key)
    /\ \E result \in on_key_results :
          /\ on_key_arm(result)
    /\ UNCHANGED <<io_vars, fetch_vars>>
    /\ UNCHANGED <<hist_vars, time_vars, tick_vars>>

\* Faulty variant of enter_arm: the control thread resets the buffer itself.
enter_arm_resets_input ==
    /\ CanSendMore
    /\ main_sent.subscribe < MaxSubscribes
    /\ io_s_send("SubscribeToFeed", <<>>, feed_subscription_input, "loop")
    /\ feed_subscription_input' = reset_feed_subscription_input
    /\ UNCHANGED <<mode, selected, flash, error_flash, feeds_version, current_view, torn_down>>

\* The arms of Mode::Editing.
enter_arm ==
    /\ CanSendMore
    /\ main_sent.subscribe < MaxSubscribes
    /\ io_s_send("SubscribeToFeed", <<>>, feed_subscription_input, "loop")
    /\ UNCHANGED <<app_vars, torn_down>>

char_arm(c) ==
    /\ Len(feed_subscription_input) < MaxInput
    /\ feed_subscription_input' = push_feed_subscription_input(feed_subscription_input, c)
    /\ UNCHANGED <<mode, selected, flash, error_flash, feeds_version, current_view>>
    /\ UNCHANGED <<chan_vars, main_vars>>

backspace_arm ==
    /\ feed_subscription_input' = pop_feed_subscription_input(feed_subscription_input)
    /\ UNCHANGED <<mode, selected, flash, error_flash, feeds_version, current_view>>
    /\ UNCHANGED <<chan_vars, main_vars>>

\* app.delete_feed()?
delete_arm ==
    /\ main_pc' \in {"loop", "failed"}
    /\ UNCHANGED <<app_vars, chan_vars, torn_down>>

esc_arm ==
    /\ mode' = "Normal"
    /\ UNCHANGED <<selected, flash, error_flash, feed_subscription_input, feeds_version, current_view>>
    /\ UNCHANGED <<chan_vars, main_vars>>

\* Faulty variant of editing_arms: the quit arm is tried first, as in Normal.
editing_arms_after_quit_keys(key) ==
    CASE IsQuitKey(key) -> quit_arm
      [] key.code = "Enter" -> enter_arm
      [] key.code \in Chars -> char_arm(key.code)
      [] key.code = "Backspace" -> backspace_arm
      [] key.code = "Delete" -> delete_arm
      [] OTHER -> UNCHANGED <<app_vars, chan_vars, main_vars>>

\* Mode::Editing matches on event.code alone, modifiers ignored.
editing_arms(key) ==
    CASE key.code = "Enter" -> enter_arm
      [] key.code \in Chars -> char_arm(key.code)
      [] key.code = "Backspace" -> backspace_arm
      [] key.code = "Delete" -> delete_arm
      [] key.code = "Esc" -> esc_arm
      [] OTHER -> UNCHANGED <<app_vars, chan_vars, main_vars>>

EditingKey(key) ==
    /\ main_pc = "loop"
    /\ mode = "Editing"
    /\ editing_arms(key)
    /\ UNCHANGED <<io_vars, fetch_vars>>
    /\ UNCHANGED <<hist_vars, time_vars, tick_vars>>

\* Faulty variant of MainJoin: main returns without joining the I/O thread.
MainJoin_without_waiting ==
    /\ main_pc = "joining"
    /\ main_pc' = "done"
    /\ UNCHANGED <<app_vars, chan_vars, torn_down, io_vars, fetch_vars>>
    /\ UNCHANGED <<hist_vars, time_vars, tick_vars>>

\* io_thread.join().expect(..)?: main returns what the I/O thread returned.
MainJoin ==
    /\ main_pc = "joining"
    /\ IoReturned
    /\ main_pc' = (IF io_pc = "returned_ok" THEN "done" ELSE "failed")
    /\ UNCHANGED <<app_vars, chan_vars, torn_down, io_vars, fetch_vars>>
    /\ UNCHANGED <<hist_vars, time_vars, tick_vars>>

\* ---------------------------------------------------------- the I/O thread
\* r2d2::Pool::new(manager)? before the loop.
IoStart ==
    /\ ProcessAlive
    /\ io_pc = "start"
    /\ \/ io_pc' = "recv" /\ io_error' = io_error
       \/ io_pc' = "returned_err" /\ io_error' = "pool_new"
    /\ UNCHANGED <<app_vars, chan_vars, main_vars, cur, fetch_vars>>
    /\ UNCHANGED <<hist_vars, time_vars, tick_vars>>

\* Faulty variant of CanRecv: the handler is not awaited before the next recv.
CanRecv_while_handling == io_pc \in {"recv", "fetching", "sleeping"} /\ io_queue # <<>>

\* The loop takes its next command only between handlers: `while let Ok(event)
\* = rx.recv()` runs again when the match arm, awaits included, has finished.
CanRecv == io_pc = "recv" /\ io_queue # <<>>

Dequeue(event) ==
    /\ ProcessAlive
    /\ CanRecv
    /\ event = rx_recv.event
    /\ io_queue' = rx_recv.rest
    /\ handled' = Append(handled, event.id)
    /\ cur' = event
    /\ UNCHANGED <<next_id, main_sent, sent>>

\* Break => break
IoBreak ==
    /\ \E event \in {c \in Range(io_queue) : c.type = "Break"} : Dequeue(event)
    /\ io_pc' = "returned_ok"
    /\ UNCHANGED <<app_vars, main_vars, io_error, fetch_vars>>
    /\ UNCHANGED <<hist_vars, time_vars, tick_vars>>

\* Faulty variant of clear_flash_arm: the error flash is cleared as well.
clear_flash_arm_clears_errors ==
    /\ flash' = clear_flash
    /\ error_flash' = clear_error_flash
    /\ UNCHANGED <<mode, selected, feed_subscription_input, feeds_version, current_view>>

\* Faulty variant of clear_flash_arm: only the scheduling command's flash is cleared.
clear_flash_arm_if_own ==
    /\ flash' = (IF flash.by = cur'.by THEN clear_flash ELSE flash)
    /\ UNCHANGED <<mode, selected, error_flash, feed_subscription_input, feeds_version, current_view>>

\* ClearFlash => app.clear_flash()
clear_flash_arm ==
    /\ flash' = clear_flash
    /\ UNCHANGED <<mode, selected, error_flash, feed_subscription_input, feeds_version, current_view>>

IoClearFlash ==
    /\ \E event \in {c \in Range(io_queue) : c.type = "ClearFlash"} : Dequeue(event)
    /\ clear_flash_arm
    /\ last_clear' = [flash_by |-> flash.by, error_held |-> error_flash,
                      completion |-> IsCompletionFlash(flash),
                      displayed_for |-> displayed_for]
    /\ displayed_for' = 0
    /\ io_pc' = "recv"
    /\ UNCHANGED <<main_vars, io_error, fetch_vars, slept, tick_vars>>

\* RefreshFeed / RefreshFeeds up to the call of refresh_feeds: the in-progress
\* flash and force_redraw()?.
IoRefreshStart ==
    /\ \E event \in {c \in Range(io_queue) : c.type \in {"RefreshFeed", "RefreshFeeds"}} :
           /\ Dequeue(event)
           /\ flash' = set_flash(IF event.type = "RefreshFeed"
                                 THEN "Refreshing feed..."
                                 ELSE "Refreshing all feeds...", event.id, 0, 0)
    /\ \/ io_pc' = "fetching" /\ io_error' = io_error
       \/ io_pc' = "returned_err" /\ io_error' = "force_redraw"
    /\ next_unit' = 1
    /\ in_flight' = {}
    /\ outcomes' = {}
    /\ successfully_refreshed_len' = 0
    /\ displayed_for' = 0
    /\ UNCHANGED <<mode, selected, error_flash, feed_subscription_input, feeds_version, current_view>>
    /\ UNCHANGED <<main_vars, hist_vars, slept, tick_vars>>

\* -------------------------------------------------------- refresh_feeds
\* buffer_unordered(num_cpus::get() * 2)
BufferLimit == NumCpus * 2

\* Faulty variant of CanSpawn: no buffer limit.
CanSpawn_unbounded == next_unit <= Len(cur.feed_ids)

\* The stream's next item is mapped (the task is spawned) only while the
\* buffer holds fewer than BufferLimit futures.
CanSpawn == next_unit <= Len(cur.feed_ids) /\ Cardinality(in_flight) < BufferLimit

IoSpawnUnit ==
    /\ ProcessAlive
    /\ io_pc = "fetching"
    /\ CanSpawn
    /\ in_flight' = in_flight \cup {[cmd |-> cur.id, unit |-> next_unit]}
    /\ next_unit' = next_unit + 1
    /\ UNCHANGED <<app_vars, chan_vars, main_vars, io_vars, outcomes,
                   successfully_refreshed_len>>
    /\ UNCHANGED <<hist_vars, time_vars, tick_vars>>

\* Faulty variant of accumulator: failures are counted as refreshed.
accumulator_counts_every_outcome(result) ==
    /\ successfully_refreshed_len' =
           IF cur.type = "RefreshFeeds"
           THEN successfully_refreshed_len + 1
           ELSE successfully_refreshed_len
    /\ error_flash' = IF result # "ok" THEN push_error_flash(error_flash) ELSE error_flash

\* The closures passed as f: RefreshFeed pushes an error flash on Err;
\* RefreshFeeds counts Ok and pushes an error flash on Err.
accumulator(result) ==
    /\ successfully_refreshed_len' =
           IF cur.type = "RefreshFeeds" /\ result = "ok"
           THEN successfully_refreshed_len + 1
           ELSE successfully_refreshed_len
    /\ error_flash' = IF result # "ok" THEN push_error_flash(error_flash) ELSE error_flash

\* Faulty variant of aborts_batch: a pool error leaves refresh_feeds too.
aborts_batch_on_pool_error(result) == result \in {"join_error", "pool_error"}

\* `let fetch_result = task_join_result?`: which results leave refresh_feeds
\* with an Err instead of reaching f. Only a JoinError does; the pool error
\* is the Err inside the task's own Ok.
aborts_batch(result) == result = "join_error"

\* One turn of `while let Some(task_join_result) = buffered_requests.next().await`.
\* The buffer is filled before an outcome is yielded.
IoUnitOutcome ==
    /\ ProcessAlive
    /\ io_pc = "fetching"
    /\ ~CanSpawn
    /\ \E u \in in_flight, result \in UnitResults :
          /\ in_flight' = in_flight \ {u}
          /\ IF aborts_batch(result)
             THEN /\ io_pc' = "returned_err"
                  /\ io_error' = result
                  /\ UNCHANGED <<outcomes, successfully_refreshed_len, error_flash>>
             ELSE /\ outcomes' = outcomes \cup {[unit |-> u.unit, result |-> result]}
                  /\ accumulator(result)
                  /\ UNCHANGED <<io_pc, io_error>>
    /\ UNCHANGED <<mode, selected, flash, feed_subscription_input, feeds_version, current_view>>
    /\ UNCHANGED <<chan_vars, main_vars, cur, next_unit>>
    /\ UNCHANGED <<hist_vars, time_vars, tick_vars>>

\* Faulty variant of completion_flash: the completion set_flash is left out.
completion_flash_left_out == flash

\* After refresh_feeds returned Ok: update_current_feed_and_entries()?, the
\* completion flash, force_redraw()?, then clear_flash_after starts its sleep.
completion_flash ==
    IF cur.type = "RefreshFeed"
    THEN set_flash("Refreshed feed", cur.id, 0, 0)
    ELSE set_flash("Refreshed feeds", cur.id, successfully_refreshed_len, Len(cur.feed_ids))

\* Faulty variant of BatchFinished: the stream is not drained before the
\* handler goes on.
BatchFinished_first_outcome == outcomes # {}

\* refresh_feeds returns Ok(()) when buffered_requests.next() yields None:
\* every identifier was spawned and every spawned unit was yielded.
BatchFinished == next_unit > Len(cur.feed_ids) /\ in_flight = {}

IoBatchDone ==
    /\ ProcessAlive
    /\ io_pc = "fetching"
    /\ BatchFinished
    /\ \/ /\ io_pc' = "returned_err"
          /\ io_error' = "update_current_feed_and_entries"
          /\ UNCHANGED <<flash, current_view>>
       \/ /\ io_pc' = "returned_err"
          /\ io_error' = "force_redraw"
          /\ current_view' = update_current_feed_and_entries(cur.id)
          /\ flash' = completion_flash
       \/ /\ io_pc' = "sleeping"
          /\ io_error' = io_error
          /\ current_view' = update_current_feed_and_entries(cur.id)
          /\ flash' = completion_flash
    /\ slept' = 0
    /\ displayed_for' = 0
    /\ UNCHANGED <<mode, selected, error_flash, feed_subscription_input, feeds_version>>
    /\ UNCHANGED <<chan_vars, main_vars, cur, fetch_vars>>
    /\ UNCHANGED <<hist_vars, tick_vars>>

\* clear_flash_after: the sleep has elapsed; send ClearFlash on the I/O
\* thread's own sender. The receiver is alive, so the send cannot fail.
\* Faulty variant of SleepElapsed: the ClearFlash is sent without sleeping.
SleepElapsed_at_once == TRUE

\* tokio::time::sleep(*duration).await returns no earlier than the duration.
SleepElapsed == slept >= FlashDuration

IoClearFlashAfter ==
    /\ ProcessAlive
    /\ io_pc = "sleeping"
    /\ SleepElapsed
    /\ LET cmd == IoCommand("ClearFlash", next_id, <<>>, <<>>, cur.id, 0)
       IN  /\ io_queue' = Append(io_queue, cmd)
           /\ sent' = Append(sent, cmd.id)
    /\ next_id' = next_id + 1
    /\ io_pc' = "recv"
    /\ cur' = NoCommand
    /\ next_unit' = 1
    /\ in_flight' = {}
    /\ outcomes' = {}
    /\ successfully_refreshed_len' = 0
    /\ slept' = 0
    /\ UNCHANGED <<app_vars, main_sent, handled, main_vars, io_error>>
    /\ UNCHANGED <<hist_vars, displayed_for, tick_vars>>

\* One unit of time passes for the I/O thread: the sleep of clear_flash_after
\* and the display of the completion flash grow older. Both clocks stop at
\* FlashDuration, beyond which nothing depends on them.
IoTimePasses ==
    /\ ProcessAlive
    /\ \/ io_pc = "sleeping" /\ slept < FlashDuration
       \/ IsCompletionFlash(flash) /\ displayed_for < FlashDuration
    /\ slept' = IF io_pc = "sleeping" THEN Min(slept + 1, FlashDuration) ELSE slept
    /\ displayed_for' = IF IsCompletionFlash(flash)
                        THEN Min(displayed_for + 1, FlashDuration)
                        ELSE displayed_for
    /\ UNCHANGED <<app_vars, chan_vars, hist_vars, main_vars, io_vars, fetch_vars, tick_vars>>

\* ------------------------------------------------------- SubscribeToFeed
IoSubscribeStart ==
    /\ \E event \in {c \in Range(io_queue) : c.type = "SubscribeToFeed"} :
           /\ Dequeue(event)
           /\ flash' = set_flash("Subscribing to feed...", event.id, 0, 0)
    /\ \/ io_pc' = "subscribing" /\ io_error' = io_error
       \/ io_pc' = "returned_err" /\ io_error' = "force_redraw"
    /\ displayed_for' = 0
    /\ UNCHANGED <<mode, selected, error_flash, feed_subscription_input, feeds_version, current_view>>
    /\ UNCHANGED <<main_vars, fetch_vars, hist_vars, slept, tick_vars>>

\* connection_pool.get()?, subscribe_to_feed, get_feeds, and the success block.
subscribe_results ==
    {"pool_get_err", "subscribe_err", "get_feeds_err", "update_err", "redraw_err", "ok"}

\* Faulty variant of subscribe_failure_arm: the error is propagated with `?`.
subscribe_failure_propagated ==
    /\ io_pc' = "returned_err"
    /\ io_error' = "subscribe"
    /\ UNCHANGED <<app_vars, cur, time_vars>>

\* Faulty variant of subscribe_failure_arm: the input buffer is reset and the
\* in-progress flash cleared on failure too.
subscribe_failure_resets ==
    /\ error_flash' = push_error_flash(error_flash)
    /\ feed_subscription_input' = reset_feed_subscription_input
    /\ flash' = clear_flash
    /\ io_pc' = "recv"
    /\ cur' = NoCommand
    /\ UNCHANGED <<mode, selected, feeds_version, current_view, io_error, time_vars>>

\* subscribe_to_feed returned Err (push_error_flash; continue) or get_feeds
\* returned Err (push_error_flash, end of the arm).
subscribe_failure_arm ==
    /\ error_flash' = push_error_flash(error_flash)
    /\ io_pc' = "recv"
    /\ cur' = NoCommand
    /\ UNCHANGED <<mode, selected, flash, feed_subscription_input, feeds_version,
                   current_view, io_error, time_vars>>

\* The Ok(feeds) block: reset the input, set_feeds, select_feeds,
\* update_current_feed_and_entries()?, set_flash, force_redraw()?, then
\* clear_flash_after starts its sleep.
subscribe_success_arm(r) ==
    /\ feed_subscription_input' = reset_feed_subscription_input
    /\ feeds_version' = set_feeds(cur.id)
    /\ selected' = select_feeds
    /\ current_view' = IF r = "update_err"
                       THEN current_view
                       ELSE update_current_feed_and_entries(cur.id)
    /\ flash' = IF r = "update_err"
                THEN flash
                ELSE set_flash("Subscribed", cur.id, 0, 0)
    /\ io_pc' = IF r = "ok" THEN "sleeping" ELSE "returned_err"
    /\ io_error' = CASE r = "update_err" -> "update_current_feed_and_entries"
                     [] r = "redraw_err" -> "force_redraw"
                     [] OTHER -> io_error
    /\ slept' = 0
    /\ displayed_for' = 0
    /\ UNCHANGED <<mode, error_flash, cur>>

IoSubscribe ==
    /\ ProcessAlive
    /\ io_pc = "subscribing"
    /\ \E r \in subscribe_results :
          CASE r = "pool_get_err" ->
                   /\ io_pc' = "returned_err"
                   /\ io_error' = "pool_get"
                   /\ UNCHANGED <<app_vars, cur, time_vars>>
            [] r \in {"subscribe_err", "get_feeds_err"} -> subscribe_failure_arm
            [] OTHER -> subscribe_success_arm(r)
    /\ UNCHANGED <<chan_vars, main_vars, fetch_vars>>
    /\ UNCHANGED <<hist_vars, tick_vars>>

\* ------------------------------------------------- the input/tick thread
\* Everything the input/tick thread leaves alone.
not_tick_vars == <<app_vars, chan_vars, hist_vars, main_vars, io_vars, fetch_vars, time_vars>>

\* Faulty variant of duration_sub: a saturating subtraction.
duration_saturating_sub(a, b) ==
    [panic |-> FALSE, value |-> IF b > a THEN 0 ELSE a - b]

\* Duration - Duration: panics when the result would be negative.
duration_sub(a, b) ==
    IF b > a THEN [panic |-> TRUE, value |-> 0] ELSE [panic |-> FALSE, value |-> a - b]

\* event::poll(tick_rate - last_tick.elapsed()): the subtraction reads the
\* clock now.
TickPoll ==
    /\ ProcessAlive
    /\ tick_pc = "top"
    /\ LET timeout == duration_sub(TickRate, elapsed)
       IN  IF timeout.panic
           THEN /\ tick_pc' = "panicked"
                /\ poll_left' = poll_left
           ELSE /\ tick_pc' = "polling"
                /\ poll_left' = timeout.value
    /\ UNCHANGED <<elapsed, since_tick, ticks, last_gap, not_tick_vars>>

\* poll returns true: an event is available before the timeout.
TickPollEvent ==
    /\ ProcessAlive
    /\ tick_pc = "polling"
    /\ tick_pc' = "read"
    /\ poll_left' = 0
    /\ UNCHANGED <<elapsed, since_tick, ticks, last_gap, not_tick_vars>>

\* poll returns false: the timeout has run out with no event.
TickPollTimeout ==
    /\ ProcessAlive
    /\ tick_pc = "polling"
    /\ poll_left = 0
    /\ tick_pc' = "check"
    /\ UNCHANGED <<elapsed, poll_left, since_tick, ticks, last_gap, not_tick_vars>>

\* event::read() and, for a key, tx.send(Event::Input(key)).
TickRead ==
    /\ ProcessAlive
    /\ tick_pc = "read"
    /\ tick_pc' = "check"
    /\ UNCHANGED <<elapsed, poll_left, since_tick, ticks, last_gap, not_tick_vars>>

\* if last_tick.elapsed() >= tick_rate
TickCheck ==
    /\ ProcessAlive
    /\ tick_pc = "check"
    /\ tick_pc' = IF elapsed >= TickRate THEN "send" ELSE "top"
    /\ UNCHANGED <<elapsed, poll_left, since_tick, ticks, last_gap, not_tick_vars>>

\* tx.send(Event::Tick)
TickSend ==
    /\ ProcessAlive
    /\ tick_pc = "send"
    /\ ticks' = Min(ticks + 1, MaxTicks)
    /\ last_gap' = since_tick
    /\ since_tick' = 0
    /\ tick_pc' = "reset"
    /\ UNCHANGED <<elapsed, poll_left, not_tick_vars>>

\* last_tick = time::Instant::now()
TickReset ==
    /\ ProcessAlive
    /\ tick_pc = "reset"
    /\ elapsed' = 0
    /\ tick_pc' = "top"
    /\ UNCHANGED <<poll_left, since_tick, ticks, last_gap, not_tick_vars>>

\* One unit of time passes for the input/tick thread, between any two of its
\* steps. The clocks stop one unit past TickRate, beyond which nothing
\* depends on them.
TickTimePasses ==
    /\ ProcessAlive
    /\ tick_pc # "panicked"
    /\ elapsed <= TickRate \/ since_tick <= TickRate \/ poll_left > 0
    /\ elapsed' = Min(elapsed + 1, TickRate + 1)
    /\ since_tick' = Min(since_tick + 1, TickRate + 1)
    /\ poll_left' = IF poll_left > 0 THEN poll_left - 1 ELSE 0
    /\ UNCHANGED <<tick_pc, ticks, last_gap, not_tick_vars>>

\* ---------------------------------------------------------- specification
Next ==
    \/ MainFault
    \/ Tick
    \/ \E key \in Keys : NormalQuit(key)
    \/ \E key \in Keys : NormalRefreshFeed(key)
    \/ \E key \in Keys : NormalRefreshFeeds(key)
    \/ \E key \in Keys : NormalOnKey(key)
    \/ \E key \in Keys : EditingKey(key)
    \/ MainJoin
    \/ IoStart
    \/ IoBreak
    \/ IoClearFlash
    \/ IoRefreshStart
    \/ IoSpawnUnit
    \/ IoUnitOutcome
    \/ IoBatchDone
    \/ IoClearFlashAfter
    \/ IoSubscribeStart
    \/ IoSubscribe
    \/ IoTimePasses
    \/ TickPoll
    \/ TickPollEvent
    \/ TickPollTimeout
    \/ TickRead
    \/ TickCheck
    \/ TickSend
    \/ TickReset
    \/ TickTimePasses

Spec == Init /\ [][Next]_vars

\* Every command kind, the user typing no text: besides r, x and the quit
\* keys of Normal mode only Enter and Esc are pressed, so every subscription
\* carries the empty input.
CommandKeys == {key \in Keys : key.code \in {"Enter", "Esc"}}

NextCommands ==
    \/ MainFault
    \/ Tick
    \/ \E key \in Keys : NormalQuit(key)
    \/ \E key \in Keys : NormalRefreshFeed(key)
    \/ \E key \in Keys : NormalRefreshFeeds(key)
    \/ \E key \in CommandKeys : NormalOnKey(key)
    \/ \E key \in CommandKeys : EditingKey(key)
    \/ MainJoin
    \/ IoStart
    \/ IoBreak
    \/ IoClearFlash
    \/ IoRefreshStart
    \/ IoSpawnUnit
    \/ IoUnitOutcome
    \/ IoBatchDone
    \/ IoClearFlashAfter
    \/ IoSubscribeStart
    \/ IoSubscribe
    \/ IoTimePasses

SpecCommands == Init /\ [][NextCommands]_vars

\* The user never presses r or x: typing, subscribing, quitting.
SubscribeKeys == {key \in Keys : key.code \notin {"r", "x"}}

NextSubscribe ==
    \/ MainFault
    \/ Tick
    \/ \E key \in SubscribeKeys : NormalQuit(key)
    \/ \E key \in SubscribeKeys : NormalOnKey(key)
    \/ \E key \in SubscribeKeys : EditingKey(key)
    \/ MainJoin
    \/ IoStart
    \/ IoBreak
    \/ IoClearFlash
    \/ IoClearFlashAfter
    \/ IoSubscribeStart
    \/ IoSubscribe
    \/ IoTimePasses

SpecSubscribe == Init /\ [][NextSubscribe]_vars

\* refresh_feeds on one batch: the I/O thread has just been handed one
\* RefreshFeed or RefreshFeeds command of up to MaxFeeds identifiers.
InitPipeline ==
    /\ mode = "Normal"
    /\ selected = "Feeds"
    /\ flash = NoFlash
    /\ error_flash = FALSE
    /\ feed_subscription_input = <<>>
    /\ feeds_version = 0
    /\ current_view = 0
    /\ \E k \in 0..MaxFeeds, type \in {"RefreshFeed", "RefreshFeeds"} :
          /\ type = "RefreshFeed" => k = 1
          /\ io_queue = <<IoCommand(type, 1, [i \in 1..k |-> i], <<>>, 0, 0)>>
    /\ next_id = 2
    /\ main_sent = [refresh |-> 1, subscribe |-> 0, break |-> 0]
    /\ sent = <<1>>
    /\ handled = <<>>
    /\ last_clear = [flash_by |-> 0, error_held |-> FALSE, completion |-> FALSE,
                     displayed_for |-> 0]
    /\ main_pc = "loop"
    /\ torn_down = FALSE
    /\ io_pc = "recv"
    /\ io_error = "none"
    /\ cur = NoCommand
    /\ next_unit = 1
    /\ in_flight = {}
    /\ outcomes = {}
    /\ successfully_refreshed_len = 0
    /\ slept = 0
    /\ displayed_for = 0
    /\ tick_pc = "top"
    /\ elapsed = 0
    /\ poll_left = 0
    /\ since_tick = 0
    /\ ticks = 0
    /\ last_gap = 0

NextPipeline ==
    \/ IoRefreshStart
    \/ IoSpawnUnit
    \/ IoUnitOutcome
    \/ IoBatchDone
    \/ IoClearFlashAfter
    \/ IoClearFlash
    \/ IoTimePasses

SpecPipeline == InitPipeline /\ [][NextPipeline]_vars

\* The user sends commands and never quits; the I/O thread keeps running:
\* it takes its next step whenever it has one (every fetch unit terminates,
\* every await returns) and time passes.
NextNoQuit ==
    \/ Tick
    \/ \E key \in Keys : NormalRefreshFeed(key)
    \/ \E key \in Keys : NormalRefreshFeeds(key)
    \/ \E key \in CommandKeys : NormalOnKey(key)
    \/ \E key \in CommandKeys : EditingKey(key)
    \/ IoStart
    \/ IoClearFlash
    \/ IoRefreshStart
    \/ IoSpawnUnit
    \/ IoUnitOutcome
    \/ IoBatchDone
    \/ IoClearFlashAfter
    \/ IoSubscribeStart
    \/ IoSubscribe
    \/ IoTimePasses

\* One step of the I/O thread.
IoStep ==
    \/ IoStart
    \/ IoClearFlash
    \/ IoRefreshStart
    \/ IoSpawnUnit
    \/ IoUnitOutcome
    \/ IoBatchDone
    \/ IoClearFlashAfter
    \/ IoSubscribeStart
    \/ IoSubscribe

SpecNoQuit ==
    Init /\ [][NextNoQuit]_vars /\ WF_vars(IoStep) /\ WF_vars(IoTimePasses)

\* The input/tick thread alone, the other threads not scheduled.
NextTick ==
    \/ TickPoll
    \/ TickPollEvent
    \/ TickPollTimeout
    \/ TickRead
    \/ TickCheck
    \/ TickSend
    \/ TickReset
    \/ TickTimePasses

SpecTick == Init /\ [][NextTick]_vars

\* ================================================================= claims
ClearFlashes == {c \in Range(io_queue) \cup {cur} : c.type = "ClearFlash"}

OkOutcomes == {o \in outcomes : o.result = "ok"}

FailedOutcomes == {o \in outcomes : o.result \in {"fetch_error", "pool_error"}}

\* C1: the I/O loop handles commands in exactly the order they were enqueued:
\* the identities handled are, in order, the first ones sent. A ClearFlash is
\* enqueued by a handler that was dequeued before it, and when the ClearFlash
\* of command N is handled no command sent during N's display delay is still
\* waiting (each was handled before it).
C1_FifoOrder ==
    /\ Len(handled) <= Len(sent)
    /\ handled = SubSeq(sent, 1, Len(handled))
    /\ \A c \in ClearFlashes :
          /\ c.by < c.id
          /\ \E i \in DOMAIN handled : handled[i] = c.by
    /\ cur.type = "ClearFlash" =>
          \A x \in Range(io_queue) : x.during # cur.by

\* A command sent during command N's display delay is being handled while
\* N's ClearFlash is the next command in the queue.
C1_Witness ==
    /\ cur.during # 0
    /\ io_pc = "fetching"
    /\ io_queue # <<>>
    /\ Head(io_queue).type = "ClearFlash"
    /\ Head(io_queue).by = cur.during

\* C2: one command is serviced at a time. Every fetch unit in flight belongs
\* to the command being handled, none is in flight while the loop waits for
\* its next command, and a command is dequeued only when the previous handler
\* (its units and its display delay included) has finished.
C2_InFlightOwned ==
    /\ \A u \in in_flight : u.cmd = cur.id /\ io_pc \in {"fetching", "returned_err"}
    /\ io_pc = "recv" => in_flight = {}

C2_OneCommandAtATime ==
    /\ []C2_InFlightOwned
    /\ [][handled' # handled => io_pc = "recv" /\ in_flight = {}]_vars

\* A unit of the running command is in flight while another refresh command
\* waits in the queue.
C2_Witness ==
    /\ in_flight # {}
    /\ io_queue # <<>>
    /\ Head(io_queue).type \in {"RefreshFeed", "RefreshFeeds"}

\* C3: at most 2 * P units are started and not yet reported; the units
\* started never exceed the outcomes reported by more than 2 * P.
C3_BoundedInFlight ==
    /\ Cardinality(in_flight) <= 2 * NumCpus
    /\ io_pc = "fetching" => (next_unit - 1) - Cardinality(outcomes) <= 2 * NumCpus
    /\ \A u \in in_flight : u.unit < next_unit

\* The buffer is full and a further identifier waits for a completion.
C3_Witness ==
    /\ io_pc = "fetching"
    /\ Cardinality(in_flight) = 2 * NumCpus
    /\ next_unit <= Len(cur.feed_ids)

\* C4: when the RefreshFeeds handler has set its "Refreshed s/k feeds" flash,
\* every one of the k identifiers has delivered exactly one outcome to the
\* accumulator, failures included, and s is the number of Ok outcomes.
C4_BatchCompletes ==
    (cur.type = "RefreshFeeds" /\ flash.text = "Refreshed feeds") =>
        /\ {o.unit : o \in outcomes} = 1..Len(cur.feed_ids)
        /\ Cardinality(outcomes) = Len(cur.feed_ids)
        /\ flash.total = Len(cur.feed_ids)
        /\ flash.ok = Cardinality(OkOutcomes)

\* "Refreshed 2/3 feeds": three identifiers, one of which failed to fetch.
C4_Witness ==
    /\ cur.type = "RefreshFeeds"
    /\ flash.text = "Refreshed feeds"
    /\ flash.total = 3
    /\ flash.ok = 2
    /\ \E o \in outcomes : o.result = "fetch_error"

\* C5 as stated: a failure to acquire a pooled connection aborts the batch
\* like a join fault, so neither is ever folded by the accumulator as a unit
\* outcome.
C5_PoolErrorAbortsBatch ==
    \A o \in outcomes : o.result \notin {"pool_error", "join_error"}

\* C5 amended: only a join fault aborts the batch and bypasses the
\* accumulator. A failed pool.get() reaches the accumulator like a fetch or
\* parse failure: it is pushed as an error flash, it is not counted as a
\* success, and the batch goes on.
C5_OnlyJoinFaultAborts ==
    /\ \A o \in outcomes : o.result # "join_error"
    /\ io_error \in UnitResults => io_error = "join_error"
    /\ FailedOutcomes # {} => error_flash
    /\ cur.type = "RefreshFeeds" => successfully_refreshed_len = Cardinality(OkOutcomes)

\* A batch ran to its completion flash although one unit could not get a
\* connection.
C5_Witness ==
    /\ io_pc = "sleeping"
    /\ Len(cur.feed_ids) >= 2
    /\ \E o \in outcomes : o.result = "pool_error"
    /\ \E o \in outcomes : o.result = "ok"

\* The step appended exactly one command of the given type to the I/O queue.
SentOne(type) ==
    /\ Len(io_queue') = Len(io_queue) + 1
    /\ SubSeq(io_queue', 1, Len(io_queue)) = io_queue
    /\ io_queue'[Len(io_queue')].type = type

\* C6: a quit key pressed in Normal mode while an error flash is held clears
\* the error flash and nothing else: no Break is sent and the loop goes on.
\* Pressed with no error flash held, and the teardown calls and the send not
\* failing, it tears the terminal down, sends exactly one Break and leaves
\* the loop. The loop is never left by `break` without those, and at most one
\* Break is sent in a run.
C6_AtMostOneBreak ==
    /\ main_sent.break <= 1
    /\ main_pc = "loop" => main_sent.break = 0 /\ ~torn_down
    /\ main_pc \in {"joining", "done"} => main_sent.break = 1 /\ torn_down
    /\ Cardinality({c \in Range(io_queue) : c.type = "Break"}) <= main_sent.break

C6_QuitKey ==
    /\ []C6_AtMostOneBreak
    /\ [][\A key \in Keys : NormalQuit(key) =>
              IF error_flash
              THEN /\ ~error_flash'
                   /\ UNCHANGED <<mode, selected, flash, feed_subscription_input,
                                  feeds_version, current_view, chan_vars, main_vars>>
              ELSE main_pc' # "failed" =>
                       /\ torn_down'
                       /\ main_pc' = "joining"
                       /\ SentOne("Break")
                       /\ main_sent'.break = 1
                       /\ UNCHANGED app_vars]_vars

\* A fetch error was flashed, the first quit key dismissed it and a second one
\* has sent Break and left the loop.
C6_Witness ==
    /\ main_pc = "joining"
    /\ torn_down
    /\ main_sent.break = 1
    /\ ~error_flash
    /\ FailedOutcomes # {}

\* What the quit arm does to the control thread's state.
QuitArmEffect ==
    /\ feed_subscription_input' = feed_subscription_input
    /\ IF error_flash
       THEN ~error_flash' /\ main_pc' = "loop"
       ELSE main_pc' \in {"joining", "failed"}

\* C7 as stated: q, Ctrl-C and Esc are handled by the quit arm in Editing
\* mode as in Normal mode, and are never text input.
C7_QuitKeysInEveryMode ==
    [][\A key \in Keys :
           (IsQuitKey(key) /\ (NormalQuit(key) \/ EditingKey(key))) => QuitArmEffect]_vars

\* C7 amended: the quit keys are intercepted in Normal mode only. In Editing
\* mode the key code alone decides: q, and the c of Ctrl-C, are appended to
\* the subscription input; Esc sets the mode to Normal. None of them
\* dismisses an error flash, tears the terminal down or sends Break.
C7_QuitKeysOnlyInNormal ==
    [][\A key \in Keys : IsQuitKey(key) =>
           /\ NormalQuit(key) => QuitArmEffect
           /\ EditingKey(key) =>
                  /\ error_flash' = error_flash
                  /\ UNCHANGED <<chan_vars, main_vars>>
                  /\ IF key.code = "Esc"
                     THEN /\ mode' = "Normal"
                          /\ feed_subscription_input' = feed_subscription_input
                     ELSE /\ mode' = "Editing"
                          /\ feed_subscription_input' =
                                 Append(feed_subscription_input, key.code)]_vars

\* In Editing mode, with an error flash held, q has been typed into the
\* subscription input and the loop is still running.
C7_Witness ==
    /\ mode = "Editing"
    /\ error_flash
    /\ feed_subscription_input = <<"q">>
    /\ main_pc = "loop"
    /\ main_sent.break = 0

\* C8: in Editing mode Esc sets the mode to Normal, keeps the input buffer
\* and sends nothing; Enter keeps the mode and the buffer and, the send not
\* failing, appends exactly one SubscribeToFeed carrying the buffer as it is
\* at the key press. No key leaves a mode other than Normal or Editing.
C8_EditingTransitions ==
    [][\A key \in Keys : EditingKey(key) =>
           /\ mode' \in {"Normal", "Editing"}
           /\ key.code = "Esc" =>
                  /\ mode' = "Normal"
                  /\ feed_subscription_input' = feed_subscription_input
                  /\ UNCHANGED <<chan_vars, main_vars>>
           /\ key.code = "Enter" =>
                  /\ mode' = "Editing"
                  /\ feed_subscription_input' = feed_subscription_input
                  /\ main_pc' # "failed" =>
                         /\ SentOne("SubscribeToFeed")
                         /\ io_queue'[Len(io_queue')].input = feed_subscription_input
                         /\ main_sent'.subscribe = main_sent.subscribe + 1]_vars

\* Enter was pressed on a non-empty buffer: the command waits in the queue
\* with the buffer's text, the buffer and the mode are as they were.
C8_Witness ==
    /\ mode = "Editing"
    /\ feed_subscription_input # <<>>
    /\ \E c \in Range(io_queue) :
          c.type = "SubscribeToFeed" /\ c.input = feed_subscription_input

\* C9: an error flash, once held, is removed only by the quit key's dismissal;
\* handling ClearFlash leaves it as it is and changes nothing of the App but
\* the status flash.
C9_ErrorFlashPersists ==
    /\ [][(error_flash /\ ~error_flash') => \E key \in Keys : NormalQuit(key)]_vars
    /\ [][IoClearFlash =>
              UNCHANGED <<error_flash, mode, selected, feed_subscription_input,
                          feeds_version, current_view>>]_vars

\* A ClearFlash was handled while an error flash was held, and it is held still.
C9_Witness ==
    /\ cur.type = "ClearFlash"
    /\ last_clear.error_held
    /\ error_flash
    /\ flash = NoFlash

\* C10: handling ClearFlash blanks the status flash whichever command set it.
\* The flash it finds is never older than the command that scheduled the
\* clear, and when a later command B has set it in the meantime, the clear
\* of A blanks B's flash.
C10_StaleClearBlanks ==
    cur.type = "ClearFlash" =>
        /\ flash = NoFlash
        /\ last_clear.flash_by # 0 => last_clear.flash_by >= cur.by

C10_ClearIsUnconditional ==
    /\ []C10_StaleClearBlanks
    /\ [][IoClearFlash => flash' = NoFlash]_vars

\* The clear scheduled by command A has blanked the flash set by a later
\* command B, whose own clear is still queued.
C10_Witness ==
    /\ cur.type = "ClearFlash"
    /\ last_clear.flash_by > cur.by
    /\ flash = NoFlash
    /\ \E c \in Range(io_queue) : c.type = "ClearFlash" /\ c.by = last_clear.flash_by

\* C11: Break cancels nothing. It is taken in its turn, by a loop that is
\* between handlers with no unit in flight, so when the I/O thread has
\* returned through Break every command sent before it was dequeued and its
\* handler finished. After the quit key has sent Break, main returns only
\* when the I/O thread has returned and is joined.
C11_BreakInItsTurn ==
    io_pc = "returned_ok" =>
        /\ cur.type = "Break"
        /\ in_flight = {}
        /\ \A i \in DOMAIN sent :
              sent[i] < cur.id => \E j \in DOMAIN handled : handled[j] = sent[i]

C11_TerminateCancelsNothing ==
    /\ []C11_BreakInItsTurn
    /\ [][IoBreak => /\ io_pc = "recv"
                     /\ in_flight = {}
                     /\ Head(io_queue).type = "Break"
                     /\ handled = SubSeq(sent, 1, Len(handled))]_vars
    /\ []((main_sent.break = 1 /\ ~ProcessAlive) => IoReturned)
    /\ [](main_pc = "done" => io_pc = "returned_ok")

\* Break was sent while a refresh handler was in its display delay: the
\* handler finished and enqueued its ClearFlash behind Break, Break was then
\* taken, and main has joined the I/O thread.
C11_Witness ==
    /\ main_pc = "done"
    /\ io_pc = "returned_ok"
    /\ cur.type = "Break"
    /\ cur.during # 0
    /\ \E c \in Range(io_queue) : c.type = "ClearFlash" /\ c.by = cur.during

\* The errors async_io_loop propagates with `?` once it is in its loop.
PropagatedErrors ==
    {"force_redraw", "update_current_feed_and_entries", "pool_get", "join_error"}

\* C12 as stated: no error met while handling a command ends the I/O
\* thread's loop; the thread returns an error only when the connection pool
\* cannot be constructed, before any command is handled.
C12_IoErrorsNeverEndLoop ==
    io_pc = "returned_err" => io_error = "pool_new"

\* C12 amended: a failed fetch unit (its connection acquisition included)
\* and a failed subscription attempt (subscribe_to_feed or get_feeds) become
\* error flashes and the loop goes on. A failed force_redraw, a failed
\* update_current_feed_and_entries, a failed pool.get() of the subscribe
\* handler and a join fault end the loop: async_io_loop returns the error.
\* It surfaces on the control thread: no later send succeeds, and the join
\* after Break returns it.
C12_ErrorsNotifiedOrPropagated ==
    /\ [](io_error \in {"none", "pool_new"} \cup PropagatedErrors)
    /\ [](io_pc = "returned_err" <=> io_error # "none")
    /\ [][IoUnitOutcome =>
              IF outcomes' = outcomes
              THEN io_pc' = "returned_err" /\ io_error' = "join_error"
              ELSE /\ io_pc' = "fetching"
                   /\ (\E o \in outcomes' \ outcomes : o.result # "ok") => error_flash']_vars
    /\ [][IoSubscribe =>
              CASE io_pc' = "recv" -> error_flash'
                [] io_pc' = "returned_err" ->
                       io_error' \in PropagatedErrors /\ error_flash' = error_flash
                [] OTHER -> io_pc' = "sleeping" /\ error_flash' = error_flash]_vars
    /\ [][main_sent' # main_sent => ~IoReturned]_vars
    /\ []((main_pc = "failed" /\ main_sent.break = 1) => io_pc = "returned_err")
    /\ []((main_pc = "done") => io_error = "none")

\* A unit of the batch failed and was flashed as an error, the batch went on
\* to its completion flash, and the redraw that follows failed: the I/O
\* thread has returned that error while the control loop is still running.
C12_Witness ==
    /\ io_pc = "returned_err"
    /\ io_error = "force_redraw"
    /\ FailedOutcomes # {}
    /\ error_flash
    /\ flash.text = "Refreshed feeds"
    /\ main_pc = "loop"

\* C13: the render loop never waits for the I/O thread. Wherever the I/O
\* thread is (in a fetch batch and in the delayed-clear wait too), the loop
\* can consume its next event: a Tick, the r key (which sends RefreshFeed),
\* Enter in Editing mode (which sends SubscribeToFeed), a quit key. A handler
\* that sends while the I/O thread is suspended appends its command in the
\* same iteration, leaves the I/O thread where it is, and is back at the
\* top of the loop (or has left it).
C13_EventsConsumable ==
    main_pc = "loop" =>
        /\ ENABLED Tick
        /\ (mode = "Normal" /\ selected = "Feeds" /\ CanSendMore) =>
               ENABLED NormalRefreshFeed([code |-> "r", modifiers |-> "NONE"])
        /\ (mode = "Normal" /\ CanSendMore) =>
               ENABLED NormalRefreshFeeds([code |-> "x", modifiers |-> "NONE"])
        /\ (mode = "Editing" /\ CanSendMore /\ main_sent.subscribe < MaxSubscribes) =>
               ENABLED EditingKey([code |-> "Enter", modifiers |-> "NONE"])
        /\ mode = "Normal" => ENABLED NormalQuit([code |-> "q", modifiers |-> "NONE"])

C13_RenderLoopNotBlocked ==
    /\ []C13_EventsConsumable
    /\ [][(io_pc \in {"fetching", "sleeping"} /\ main_sent' # main_sent) =>
              /\ main_pc = "loop"
              /\ main_pc' \in {"loop", "joining"}
              /\ Len(io_queue') = Len(io_queue) + 1
              /\ SubSeq(io_queue', 1, Len(io_queue)) = io_queue
              /\ UNCHANGED <<io_vars, fetch_vars, time_vars>>]_vars

\* A command was sent while the I/O thread was in the delayed-clear wait of
\* another; the wait is not over and the render loop is running.
C13_Witness ==
    /\ main_pc = "loop"
    /\ io_pc = "sleeping"
    /\ slept < FlashDuration
    /\ \E c \in Range(io_queue) : c.during = cur.id

\* The in-progress notification of a refresh command.
RefreshInProgress(c) ==
    set_flash(IF c.type = "RefreshFeed" THEN "Refreshing feed..." ELSE "Refreshing all feeds...",
              c.id, 0, 0)

UnitsReported == {o.unit : o \in outcomes}

\* C14: the steps of a refresh handler come in this order. The in-progress
\* flash is set when no unit has started and stays through the batch, during
\* which the view is not yet refreshed; the view is refreshed and the
\* completion flash set only when every unit has reported; the ClearFlash is
\* enqueued, once, only when the display duration has been waited out, and
\* the handler is then over. Handling ClearFlash enqueues nothing.
C14_HandlerStages ==
    /\ io_pc = "fetching" =>
           /\ flash = RefreshInProgress(cur)
           /\ current_view # cur.id
           /\ \A c \in Range(io_queue) : c.by # cur.id
    /\ (io_pc = "sleeping" /\ cur.type \in {"RefreshFeed", "RefreshFeeds"}) =>
           /\ UnitsReported = 1..Len(cur.feed_ids)
           /\ in_flight = {}
           /\ current_view = cur.id
           /\ flash = completion_flash
           /\ \A c \in Range(io_queue) : c.by # cur.id
    /\ \A c1, c2 \in ClearFlashes : c1.by = c2.by => c1 = c2

C14_RefreshStepsInOrder ==
    /\ []C14_HandlerStages
    /\ [][IoRefreshStart =>
              /\ flash' = RefreshInProgress(cur')
              /\ next_unit' = 1 /\ in_flight' = {} /\ outcomes' = {}]_vars
    /\ [][(IoBatchDone /\ flash' # flash) =>
              /\ UnitsReported = 1..Len(cur.feed_ids)
              /\ current_view' = cur.id
              /\ flash' = completion_flash]_vars
    /\ [][IoClearFlashAfter =>
              /\ slept >= FlashDuration
              /\ SentOne("ClearFlash")
              /\ io_queue'[Len(io_queue')].by = cur.id
              /\ io_pc' = "recv"
              /\ cur' = NoCommand]_vars
    /\ [][IoClearFlash => io_queue' = Tail(io_queue) /\ next_id' = next_id]_vars

\* A RefreshFeeds handler over two feeds has finished: the view is
\* refreshed, "Refreshed 1/2 feeds" is displayed, and its one ClearFlash is
\* the only command queued.
C14_Witness ==
    /\ io_pc = "recv"
    /\ cur = NoCommand
    /\ flash.text = "Refreshed feeds"
    /\ flash.total = 2
    /\ flash.ok = 1
    /\ current_view = flash.by
    /\ Len(io_queue) = 1
    /\ io_queue[1].type = "ClearFlash"
    /\ io_queue[1].by = flash.by

\* C15: when the subscription attempt fails the handler pushes an error
\* flash and changes nothing else of the App (the input buffer, the feed
\* collection, the selection, the view and the status flash stay as they
\* are), enqueues nothing, and the loop is back at rx.recv(). When it
\* succeeds the buffer is reset, the feed collection and the view are
\* replaced, the feed pane is selected, "Subscribed" is set, and after the
\* display delay exactly one ClearFlash is enqueued.
C15_SubscribeOutcome ==
    /\ [][(IoSubscribe /\ io_pc' = "recv") =>
              /\ error_flash'
              /\ UNCHANGED <<mode, selected, flash, feed_subscription_input,
                             feeds_version, current_view>>
              /\ UNCHANGED <<io_queue, next_id>>]_vars
    /\ [][(IoSubscribe /\ io_pc' = "sleeping") =>
              /\ feed_subscription_input' = <<>>
              /\ feeds_version' = cur.id
              /\ current_view' = cur.id
              /\ selected' = "Feeds"
              /\ flash' = set_flash("Subscribed", cur.id, 0, 0)
              /\ UNCHANGED <<error_flash, mode, io_queue, next_id>>]_vars
    /\ [][(IoClearFlashAfter /\ cur.type = "SubscribeToFeed") =>
              /\ SentOne("ClearFlash")
              /\ io_queue'[Len(io_queue')].by = cur.id
              /\ cur' = NoCommand]_vars

\* A subscription of typed text failed: the error flash is held, the text is
\* still in the buffer, "Subscribing to feed..." is still the status flash,
\* nothing is queued and the loop waits for its next command.
C15_Witness ==
    /\ io_pc = "recv"
    /\ cur = NoCommand
    /\ error_flash
    /\ feed_subscription_input # <<>>
    /\ flash.text = "Subscribing to feed..."
    /\ feeds_version = 0
    /\ io_queue = <<>>
    /\ selected = "Entries"

\* C16: in Normal mode a key that is none of the reserved quit, r and x keys
\* goes to on_key. Whatever on_key returns, nothing is sent to the I/O
\* queue, the terminal is not torn down and the loop goes on to its next
\* iteration; when it fails, the failure is pushed as an error flash and
\* its handling changes neither the mode nor the selection.
C16_OnKeyFailureIsFlashed ==
    [][\A key \in Keys : NormalOnKey(key) =>
           /\ ~IsQuitKey(key) /\ ~IsRefreshFeedKey(key) /\ ~IsRefreshFeedsKey(key)
           /\ main_pc' = "loop"
           /\ UNCHANGED <<chan_vars, torn_down, flash, feed_subscription_input>>
           /\ error_flash => error_flash'
           /\ (~error_flash /\ error_flash') =>
                  UNCHANGED <<mode, selected>>]_vars

\* An error flash is held although nothing was ever sent to the I/O thread:
\* on_key failed, and the loop is running in Normal mode.
C16_Witness ==
    /\ error_flash
    /\ next_id = 1
    /\ io_queue = <<>>
    /\ main_pc = "loop"
    /\ mode = "Normal"

\* C17: a completion notification is never blanked before it has been
\* displayed for the flash display duration. The handler that set it waits
\* the duration out before the loop takes any other command, so whichever
\* ClearFlash is handled while it is displayed, one scheduled by an earlier
\* command too, is handled at least FlashDuration after it was set.
C17_CompletionDisplayedInFull ==
    /\ [][(IoClearFlash /\ IsCompletionFlash(flash)) =>
              displayed_for >= FlashDuration]_vars
    /\ [][io_pc = "sleeping" => handled' = handled]_vars
    /\ []((io_pc = "sleeping" /\ IsCompletionFlash(flash)) => displayed_for >= slept)
    /\ []((cur.type = "ClearFlash" /\ last_clear.completion) =>
              last_clear.displayed_for >= FlashDuration)

\* The ClearFlash of an earlier command has blanked the completion
\* notification of a later one, which had been displayed for the full
\* duration by then.
C17_Witness ==
    /\ cur.type = "ClearFlash"
    /\ last_clear.completion
    /\ last_clear.flash_by > cur.by
    /\ last_clear.displayed_for = FlashDuration
    /\ flash = NoFlash

InProgressTexts == {"Refreshing feed...", "Refreshing all feeds...", "Subscribing to feed..."}

\* The I/O thread has handled everything it was sent and waits for a command.
IoIdle == io_pc = "recv" /\ io_queue = <<>>

\* The process has ended, or the I/O thread has returned an error.
IoStopped == ~ProcessAlive \/ io_pc = "returned_err"

C19_SingleExit ==
    main_pc # "loop" => (torn_down /\ main_sent.break = 1)

\* C19 amended: the loop has one `break`, in the quit arm, and main reaches
\* the join only through it, with the terminal torn down and exactly one
\* Break sent. Every `?` of the loop is a second way out: a failed draw,
\* event receive, send, toggle_read, feed_ids, delete_feed or teardown call
\* makes main return the error at once, having sent nothing in that
\* iteration, without Break and without joining the I/O thread.
C19_BreakExitAndErrorExits ==
    /\ [](main_pc \in {"joining", "done"} => (torn_down /\ main_sent.break = 1))
    /\ [](main_sent.break <= 1)
    /\ [][(main_pc = "loop" /\ main_pc' = "joining") =>
              /\ \E key \in Keys : NormalQuit(key)
              /\ ~error_flash
              /\ mode = "Normal"
              /\ SentOne("Break")]_vars
    /\ [][(main_pc = "loop" /\ main_pc' = "failed") =>
              UNCHANGED <<app_vars, chan_vars, io_vars, fetch_vars>>]_vars
    /\ []((main_pc = "failed" /\ main_sent.break = 0) =>
              \A c \in Range(io_queue) \cup {cur} : c.type # "Break")
    /\ [][(main_pc \in {"done", "failed"}) => UNCHANGED <<main_pc, chan_vars>>]_vars

\* main has returned an error from inside the loop: the terminal was not
\* torn down, no Break was sent, and the I/O thread was in the middle of a
\* fetch batch.
C19_Witness ==
    /\ main_pc = "failed"
    /\ ~torn_down
    /\ main_sent.break = 0
    /\ io_pc = "fetching"
    /\ in_flight # {}

\* Consecutive Tick events are sent at least TickRate apart.
TicksSpaced == ticks >= 2 => last_gap >= TickRate

\* C20: in the input/tick thread tick_rate - last_tick.elapsed() never
\* underflows, however the clock advances between the elapsed-time check
\* that ends one iteration and the subtraction that starts the next, and
\* consecutive Tick events are sent at least TickRate apart.
C20_PollTimeoutNeverUnderflows ==
    /\ tick_pc # "panicked"
    /\ TicksSpaced

====
